---- MODULE Spec2Model ----
(***************************************************************************)
(* Data preparation pipeline of the crime dashboard (app-5.py, app-4.py):  *)
(* the department deriver, the reference and population loaders, and       *)
(* prepare_data (name join, early filters, population join, rate).         *)
(*                                                                         *)
(* Representation of pandas / Python values                                *)
(*   - a Python object cell (commune code, department) is a record         *)
(*     [type, val]: type is the Python type name, val the characters;      *)
(*   - a nullable numeric cell (annee, nombre, Population) is <<>> for     *)
(*     NaN and <<n>> for the number n;                                     *)
(*   - a nullable name cell (Commune) is <<>> for NaN and <<name>>;        *)
(*   - a float result (the rate) is a record [k, n, d]: k is "nan",       *)
(*     "inf", "ninf" or "fin", and for "fin" n/d is the reduced fraction;  *)
(*   - a DataFrame is the sequence of its rows, each row a record.         *)
(***************************************************************************)
EXTENDS Integers, Sequences, FiniteSets, TLC

VARIABLES
    code,       \* derive_dep: the argument of the last call
    dep,        \* derive_dep: the value returned by the last call
    crime,      \* the table load_crime_data returns (crime_2016_2024.csv.gz)
    refFile,    \* rows of v_commune_2025.csv (COM, LIBELLE)
    popFile,    \* rows of population_long.csv (codgeo, annee, Population)
    args,       \* prepare_data: the arguments of the last call
    df,         \* prepare_data: the table returned by the last call
    stage,      \* prepare_data: the intermediate tables of the last run of the body
    cache,      \* st.cache_data memo of prepare_data: argument tuple -> table
    first,      \* history: argument tuple -> table returned by the first call with it
    ncalls,     \* number of prepare_data calls made so far
    pc,         \* what ran last
    input,      \* loaders and normalize_columns: the table or cell given
    result,     \* loaders and normalize_columns: what was returned or raised
    disk,       \* the local files: path -> <<>> when absent, <<table>> when present
    crimeMemo,  \* st.cache_data memo of load_crime_data: <<>> or <<table>>
    firstLoad,  \* history: <<>> or <<table returned by the first load of the process>>
    nreads,     \* number of reads of the crime file by the running process
    cleared,    \* whether the caches were cleared in the running process
    err,        \* the exception that ended the last script run, <<>> when none
    attempt,    \* http_get_with_retry: the loop index i
    requests,   \* http_get_with_retry: number of requests sent
    sleeps,     \* http_get_with_retry: the waits made, in seconds, in order
    resp,       \* update_crime_data: <<>> or <<the downloaded table>>
    status,     \* update_crime_data: exit status of the run, <<>> while running
    widgets,    \* the page: the values of the sidebar and tab widgets of the run
    views       \* the page: what the run displayed, in order

pureVars == <<input, result>>
loadVars == <<disk, crimeMemo, firstLoad, nreads, cleared, err>>
fetchVars == <<attempt, requests, sleeps, resp, status>>
pageVars == <<widgets, views>>

vars ==
    <<code, dep, crime, refFile, popFile, args, df, stage, cache, first, ncalls, pc,
      pureVars, loadVars, fetchVars, pageVars>>

IdlePure == input = <<>> /\ result = <<>>

IdleLoad ==
    /\ disk = <<>> /\ crimeMemo = <<>> /\ firstLoad = <<>>
    /\ nreads = 0 /\ cleared = FALSE /\ err = <<>>

IdleFetch ==
    /\ attempt = 0 /\ requests = 0 /\ sleeps = <<>> /\ resp = <<>> /\ status = <<>>

IdlePage == widgets = <<>> /\ views = <<>>

----------------------------------------------------------------------------
(* Bounds *)

MaxCodeLen == 5

----------------------------------------------------------------------------
(* Python values *)

PyStr(s) == [type |-> "str", val |-> s]
PyNone == [type |-> "NoneType", val |-> <<>>]
PyInt(digits) == [type |-> "int", val |-> digits]
PyFloatNaN == [type |-> "float", val |-> <<>>]

NaN == <<>>
Num(n) == <<n>>
IsNa(x) == x = <<>>

\* s[:n] of Python: the first n characters, or all of s when it is shorter
Slice(s, n) == SubSeq(s, 1, IF Len(s) < n THEN Len(s) ELSE n)

\* str.startswith
StartsWith(s, prefix) == Len(s) >= Len(prefix) /\ SubSeq(s, 1, Len(prefix)) = prefix

Alphabet == {"0", "2", "7", "8", "9", "A", "B"}

SeqsUpTo(S, n) == UNION {[1..k -> S] : k \in 0..n}

----------------------------------------------------------------------------
(* Department deriver, app-5.py *)

derive_dep_no_overseas(c) ==
    IF c.type # "str" \/ Len(c.val) < 2 THEN PyNone
    ELSE PyStr(Slice(c.val, 2))

derive_dep(c) ==
    IF c.type # "str" \/ Len(c.val) < 2 THEN PyNone
    ELSE IF StartsWith(c.val, <<"9", "7">>) \/ StartsWith(c.val, <<"9", "8">>)
         THEN PyStr(Slice(c.val, 3))
    ELSE IF Slice(c.val, 2) \in {<<"2", "A">>, <<"2", "B">>}
         THEN PyStr(Slice(c.val, 2))
    ELSE PyStr(Slice(c.val, 2))

----------------------------------------------------------------------------
(* Floats of the rate computation *)

FNaN == [k |-> "nan", n |-> 0, d |-> 1]
FInf == [k |-> "inf", n |-> 0, d |-> 1]
FNegInf == [k |-> "ninf", n |-> 0, d |-> 1]

Abs(x) == IF x < 0 THEN -x ELSE x

RECURSIVE GCD(_, _)
GCD(a, b) == IF b = 0 THEN a ELSE GCD(b, a % b)

\* the finite float n/d (d > 0), as a reduced fraction
Fin(n, d) ==
    LET g == GCD(Abs(n), d)
    IN [k |-> "fin", n |-> n \div g, d |-> d \div g]

\* a / b on two float64 columns: NaN propagates, x/0 is +-inf, 0/0 is NaN
FDiv(a, b) ==
    IF IsNa(a) \/ IsNa(b) THEN FNaN
    ELSE IF b[1] = 0
         THEN (IF a[1] = 0 THEN FNaN ELSE IF a[1] > 0 THEN FInf ELSE FNegInf)
    ELSE IF b[1] > 0 THEN Fin(a[1], b[1])
    ELSE Fin(-a[1], -b[1])

\* f * m for a positive integer m
FMul(f, m) == IF f.k = "fin" THEN Fin(f.n * m, f.d) ELSE f

----------------------------------------------------------------------------
(* Loaders, app-5.py *)

\* str.zfill(width)
RECURSIVE zfill(_, _)
zfill(s, width) == IF Len(s) >= width THEN s ELSE zfill(<<"0">> \o s, width)

load_communes_ref(file) ==
    [i \in 1..Len(file) |-> [CODGEO_2025 |-> file[i].COM, Commune |-> file[i].LIBELLE]]

load_population_data(file) ==
    [i \in 1..Len(file) |->
        [CODGEO |-> PyStr(zfill(file[i].codgeo.val, 5)),
         annee |-> file[i].annee,
         Population |-> file[i].Population]]

----------------------------------------------------------------------------
(* pandas operations used by prepare_data *)

\* left.merge(ref, on="CODGEO_2025", how="left"): for one left row, one output
\* row per matching right row in right order, or one row with a null Commune
MergeRefRow(l, right) ==
    LET m == SelectSeq(right, LAMBDA r : r.CODGEO_2025 = l.CODGEO_2025)
    IN  IF m = <<>> THEN << l @@ [Commune |-> NaN] >>
        ELSE [i \in 1..Len(m) |-> l @@ [Commune |-> m[i].Commune]]

RECURSIVE MergeRefInner(_, _)
MergeRefInner(left, right) ==
    IF left = <<>> THEN <<>>
    ELSE LET l == Head(left)
             m == SelectSeq(right, LAMBDA r : r.CODGEO_2025 = l.CODGEO_2025)
         IN [i \in 1..Len(m) |-> l @@ [Commune |-> m[i].Commune]]
            \o MergeRefInner(Tail(left), right)

RECURSIVE MergeRef(_, _)
MergeRef(left, right) ==
    IF left = <<>> THEN <<>>
    ELSE MergeRefRow(Head(left), right) \o MergeRef(Tail(left), right)

\* left.merge(pop, left_on=["CODGEO_2025","annee"], right_on=["CODGEO","annee"],
\* how="left"); pop's annee is an int column, so a NaN year matches nothing
PopMatches(l, r) ==
    /\ r.CODGEO = l.CODGEO_2025
    /\ ~IsNa(l.annee)
    /\ r.annee = l.annee[1]

MergePopRow(l, right) ==
    LET m == SelectSeq(right, LAMBDA r : PopMatches(l, r))
    IN  IF m = <<>> THEN << l @@ [CODGEO |-> PyFloatNaN, Population |-> NaN] >>
        ELSE [i \in 1..Len(m) |->
                l @@ [CODGEO |-> m[i].CODGEO, Population |-> m[i].Population]]

RECURSIVE MergePop(_, _)
MergePop(left, right) ==
    IF left = <<>> THEN <<>>
    ELSE MergePopRow(Head(left), right) \o MergePop(Tail(left), right)

----------------------------------------------------------------------------
(* prepare_data, app-5.py *)

None == <<>>

\* truth value of a Python str-or-None argument: None and "" are falsy
TruthyStr(x) == x.type = "str" /\ x.val # <<>>

\* truth value of a list-or-None argument: None and [] are falsy
TruthyList(x) == x # None /\ x[1] # {}

\* crime["DEP"] = crime["CODGEO_2025"].map(derive_dep)
AddDep(t) == [i \in 1..Len(t) |-> t[i] @@ [DEP |-> derive_dep(t[i].CODGEO_2025)]]

YearFilterAlways(t, a) ==
    IF a.annee_choice # None
    THEN SelectSeq(t, LAMBDA r : r.annee = a.annee_choice)
    ELSE t

\* if not include_all_years and annee_choice is not None: annee == annee_choice
YearFilter(t, a) ==
    IF ~a.include_all_years /\ a.annee_choice # None
    THEN SelectSeq(t, LAMBDA r : r.annee = a.annee_choice)
    ELSE t

\* the name of a commune code in upper case, as a code-keyed or case-folded
\* match would compare it
Upper(name) ==
    CASE name = "Lyon" -> "LYON"
      [] name = "Paris" -> "PARIS"
      [] name = "Ajaccio" -> "AJACCIO"
      [] name = "Saint-Denis" -> "SAINT-DENIS"
      [] OTHER -> name

CommuneFilterFolded(t, a) ==
    IF TruthyList(a.communes_choice)
    THEN SelectSeq(t, LAMBDA r :
            ~IsNa(r.Commune)
            /\ Upper(r.Commune[1]) \in {Upper(n) : n \in a.communes_choice[1]})
    ELSE t

\* if communes_choice: Commune.isin(communes_choice)
CommuneFilter(t, a) ==
    IF TruthyList(a.communes_choice)
    THEN SelectSeq(t, LAMBDA r :
            ~IsNa(r.Commune) /\ r.Commune[1] \in a.communes_choice[1])
    ELSE t

DepFilterPrefix(t, a) ==
    IF TruthyStr(a.dep_choice)
    THEN SelectSeq(t, LAMBDA r : Slice(r.CODGEO_2025.val, 2) = a.dep_choice.val)
    ELSE t

\* if dep_choice: DEP == dep_choice
DepFilter(t, a) ==
    IF TruthyStr(a.dep_choice)
    THEN SelectSeq(t, LAMBDA r : r.DEP = a.dep_choice)
    ELSE t

RateUnmaskedZero(r) ==
    IF IsNa(r.Population) \/ (~IsNa(r.Population) /\ r.Population[1] < 0)
    THEN FNaN
    ELSE FMul(FDiv(r.nombre, r.Population), 1000)

\* (nombre / Population) * 1000, then NA where Population is NaN or <= 0
SafeRate(r) ==
    IF IsNa(r.Population) \/ (~IsNa(r.Population) /\ r.Population[1] <= 0)
    THEN FNaN
    ELSE FMul(FDiv(r.nombre, r.Population), 1000)

AddRate(t) == [i \in 1..Len(t) |-> t[i] @@ [taux_calcule_pour_mille |-> SafeRate(t[i])]]

\* the body of prepare_data: its intermediate tables and its result
PrepareBody(a, crimeT, refT, popT) ==
    LET joined == AddDep(MergeRef(crimeT, load_communes_ref(refT)))
        left == DepFilter(CommuneFilter(YearFilter(joined, a), a), a)
        merged == MergePop(left, load_population_data(popT))
    IN  [joined |-> joined, left |-> left, merged |-> merged, final |-> AddRate(merged)]

----------------------------------------------------------------------------
(* prepare_data, app-4.py *)

load_communes_ref4(file) ==
    [i \in 1..Len(file) |-> [CODGEO_2025 |-> file[i].COM, Commune |-> file[i].LIBELLE]]

load_population_data4(file) ==
    [i \in 1..Len(file) |->
        [CODGEO |-> PyStr(zfill(file[i].codgeo.val, 5)),
         annee |-> file[i].annee,
         Population |-> file[i].Population]]

\* if annee_choice is not None: annee == annee_choice
YearFilter4(t, a) ==
    IF a.annee_choice # None
    THEN SelectSeq(t, LAMBDA r : r.annee = a.annee_choice)
    ELSE t

\* if dep_choice: a prefix match for 97/98/20, else CODGEO_2025[:2] == dep_choice
DepFilter4(t, a) ==
    IF ~TruthyStr(a.dep_choice) THEN t
    ELSE IF StartsWith(a.dep_choice.val, <<"9", "7">>)
            \/ StartsWith(a.dep_choice.val, <<"9", "8">>)
         THEN SelectSeq(t, LAMBDA r : StartsWith(r.CODGEO_2025.val, a.dep_choice.val))
    ELSE IF StartsWith(a.dep_choice.val, <<"2", "0">>)
         THEN SelectSeq(t, LAMBDA r : StartsWith(r.CODGEO_2025.val, a.dep_choice.val))
    ELSE SelectSeq(t, LAMBDA r : Slice(r.CODGEO_2025.val, 2) = a.dep_choice.val)

\* DEP = code[:2]; code[:3] where the code starts with 97/98 or DEP is "20"
InlineDep(c) ==
    IF StartsWith(c.val, <<"9", "7">>) \/ StartsWith(c.val, <<"9", "8">>)
    THEN PyStr(Slice(c.val, 3))
    ELSE IF Slice(c.val, 2) = <<"2", "0">> THEN PyStr(Slice(c.val, 3))
    ELSE PyStr(Slice(c.val, 2))

AddDep4(t) == [i \in 1..Len(t) |-> t[i] @@ [DEP |-> InlineDep(t[i].CODGEO_2025)]]

\* (nombre / Population) * 1000, unmasked
AddRate4(t) ==
    [i \in 1..Len(t) |->
        t[i] @@ [taux_calcule_pour_mille |-> FMul(FDiv(t[i].nombre, t[i].Population), 1000)]]

PrepareBody4(a, crimeT, refT, popT) ==
    LET joined == MergeRef(crimeT, load_communes_ref4(refT))
        left == DepFilter4(CommuneFilter(YearFilter4(joined, a), a), a)
        merged == MergePop(left, load_population_data4(popT))
    IN  [joined |-> joined, left |-> left, merged |-> merged,
         final |-> AddRate4(AddDep4(merged))]

----------------------------------------------------------------------------
(* Inputs *)

MaxCrimeRows == 3
MaxCalls == 3

cParis == <<"7", "5", "0", "5", "6">>
cReunion == <<"9", "7", "4", "1", "1">>
cAjaccio == <<"2", "A", "0", "0", "4">>
cLyon == <<"6", "9", "1", "2", "3">>
cAin == <<"0", "1", "0", "0", "1">>

CrimeRow(c, y, ind, n) ==
    [CODGEO_2025 |-> PyStr(c), annee |-> y, indicateur |-> ind, nombre |-> n]

CrimeFixture ==
    << CrimeRow(cParis, Num(2023), "vols", Num(12)),
       CrimeRow(cParis, Num(2023), "coups", Num(3)),
       CrimeRow(cParis, Num(2024), "vols", Num(8)),
       CrimeRow(cReunion, Num(2023), "vols", Num(5)),
       CrimeRow(cAjaccio, Num(2023), "coups", NaN),
       CrimeRow(cLyon, NaN, "vols", Num(4)),
       CrimeRow(cAin, Num(2023), "vols", Num(2)) >>

\* the rows of fix at the indices S, in order
RECURSIVE Pick(_, _)
Pick(fix, S) ==
    IF S = {} THEN <<>>
    ELSE LET m == CHOOSE i \in S : \A j \in S : i <= j
         IN  <<fix[m]>> \o Pick(fix, S \ {m})

CrimeTables ==
    {Pick(CrimeFixture, S) :
        S \in {X \in SUBSET (1..Len(CrimeFixture)) : Cardinality(X) <= MaxCrimeRows}}

RefRow(c, name) == [COM |-> PyStr(c), LIBELLE |-> <<name>>]

RefFull ==
    << RefRow(cParis, "Paris"), RefRow(cReunion, "Saint-Denis"),
       RefRow(cAjaccio, "Ajaccio"), RefRow(cLyon, "LYON") >>

\* a commune and its delegated commune share one COM code
RefDup ==
    << RefRow(cParis, "Paris"), RefRow(cParis, "Paris"),
       RefRow(cReunion, "Saint-Denis"), RefRow(cAjaccio, "Ajaccio") >>

RefFiles == {RefFull, RefDup, <<>>}

PopRow(c, y, p) == [codgeo |-> PyStr(c), annee |-> y, Population |-> p]

PopFull ==
    << PopRow(cParis, 2023, Num(2000)), PopRow(cParis, 2024, Num(2000)),
       PopRow(cReunion, 2023, Num(0)), PopRow(cAjaccio, 2023, Num(-5)),
       PopRow(<<"1", "0", "0", "1">>, 2023, Num(800)),
       PopRow(cLyon, 2023, NaN) >>

PopDup == << PopRow(cParis, 2023, Num(2000)), PopRow(cParis, 2023, Num(1000)) >>

PopParis == << PopRow(cParis, 2023, Num(2000)), PopRow(cAjaccio, 2023, Num(500)) >>

PopFiles == {PopFull, PopDup, PopParis, <<>>}

Years == {None, Num(2023), Num(2024)}
CommuneChoices == {None, <<{}>>, <<{"Paris"}>>, <<{"Lyon", "Ajaccio"}>>}
DepChoices ==
    {PyNone, PyStr(<<>>), PyStr(<<"7", "5">>), PyStr(<<"2", "A">>),
     PyStr(<<"9", "7", "4">>), PyStr(<<"9", "7">>)}

Args5 ==
    [annee_choice : Years, communes_choice : CommuneChoices,
     dep_choice : DepChoices, include_all_years : BOOLEAN]

\* app-4.py's prepare_data has no include_all_years parameter
Args4 == {a \in Args5 : ~a.include_all_years}

NoArgs ==
    [annee_choice |-> None, communes_choice |-> None,
     dep_choice |-> PyNone, include_all_years |-> FALSE]

NoStage == [joined |-> <<>>, left |-> <<>>, merged |-> <<>>, final |-> <<>>]

DepInputs ==
    {PyStr(s) : s \in SeqsUpTo(Alphabet, MaxCodeLen)}
    \cup {PyStr(cParis), PyStr(cReunion), PyStr(cAjaccio), PyStr(cLyon), PyStr(cAin)}
    \cup {PyNone, PyFloatNaN, PyInt(cParis)}

----------------------------------------------------------------------------
(* The department deriver applied to one input *)

InitDep ==
    /\ code \in DepInputs
    /\ dep = PyNone
    /\ crime = <<>> /\ refFile = <<>> /\ popFile = <<>>
    /\ args = NoArgs /\ df = <<>> /\ stage = NoStage
    /\ cache = <<>> /\ first = <<>> /\ ncalls = 0
    /\ IdlePure /\ IdleLoad /\ IdleFetch /\ IdlePage
    /\ pc = "start"

DeriveDep ==
    /\ pc = "start"
    /\ dep' = derive_dep(code)
    /\ pc' = "derived"
    /\ UNCHANGED <<code, crime, refFile, popFile, args, df, stage, cache, first, ncalls>>
    /\ UNCHANGED <<pureVars, loadVars, fetchVars, pageVars>>

NextDep == DeriveDep

SpecDep == InitDep /\ [][NextDep]_vars

----------------------------------------------------------------------------
(* The body of prepare_data applied to source tables and arguments *)

InitPrepare ==
    /\ code = PyNone /\ dep = PyNone
    /\ crime \in CrimeTables
    /\ refFile \in RefFiles
    /\ popFile \in PopFiles
    /\ args = NoArgs /\ df = <<>> /\ stage = NoStage
    /\ cache = <<>> /\ first = <<>> /\ ncalls = 0
    /\ IdlePure /\ IdleLoad /\ IdleFetch /\ IdlePage
    /\ pc = "start"

RunPrepare5(a) ==
    /\ pc = "start"
    /\ args' = a
    /\ stage' = PrepareBody(a, crime, refFile, popFile)
    /\ df' = stage'.final
    /\ pc' = "app5"
    /\ UNCHANGED <<code, dep, crime, refFile, popFile, cache, first, ncalls>>
    /\ UNCHANGED <<pureVars, loadVars, fetchVars, pageVars>>

RunPrepare4(a) ==
    /\ pc = "start"
    /\ args' = a
    /\ stage' = PrepareBody4(a, crime, refFile, popFile)
    /\ df' = stage'.final
    /\ pc' = "app4"
    /\ UNCHANGED <<code, dep, crime, refFile, popFile, cache, first, ncalls>>
    /\ UNCHANGED <<pureVars, loadVars, fetchVars, pageVars>>

NextPrepare ==
    \/ \E a \in Args5 : RunPrepare5(a)
    \/ \E a \in Args4 : RunPrepare4(a)

SpecPrepare == InitPrepare /\ [][NextPrepare]_vars

----------------------------------------------------------------------------
(* Properties of derive_dep *)

WellFormed(c) == c.type = "str" /\ Len(c.val) = 5

\* C2: on a well-formed 5-character code derive_dep returns a department: the
\* first three characters when the code starts with 97 or 98, the two characters
\* 2A or 2B for a Corsican code, the first two characters otherwise.
C2_DeriveDepWellFormed ==
    (pc = "derived" /\ WellFormed(code)) =>
        LET v == code.val
        IN  /\ dep.type = "str"
            /\ (v[1] = "9" /\ v[2] \in {"7", "8"}) => dep.val = <<v[1], v[2], v[3]>>
            /\ (v[1] = "2" /\ v[2] \in {"A", "B"}) => dep.val = <<"2", v[2]>>
            /\ ~(v[1] = "9" /\ v[2] \in {"7", "8"}) => dep.val = <<v[1], v[2]>>

C2_Witness ==
    /\ pc = "derived"
    /\ code = PyStr(cReunion)
    /\ dep = PyStr(<<"9", "7", "4">>)

\* C3: derive_dep returns null for every input that is not a 5-character string.
C3_NotFiveCharsIsNull ==
    (pc = "derived" /\ ~WellFormed(code)) => dep = PyNone

\* C26: on every well-formed 5-character code the inline department computation
\* of app.py and app-4.py gives the department derive_dep gives.
C26_InlineDepSameAsDeriveDep ==
    (pc = "derived" /\ WellFormed(code)) => InlineDep(code) = dep

----------------------------------------------------------------------------
(* Properties of the body of prepare_data *)

CrimePart(r) ==
    [CODGEO_2025 |-> r.CODGEO_2025, annee |-> r.annee,
     indicateur |-> r.indicateur, nombre |-> r.nombre]

Ran5 == pc = "app5"

PositivePop(r) == ~IsNa(r.Population) /\ r.Population[1] > 0

HasPopRecord(r) ==
    \E i \in 1..Len(popFile) :
        /\ zfill(popFile[i].codgeo.val, 5) = r.CODGEO_2025.val
        /\ Num(popFile[i].annee) = r.annee

\* nombre / Population * 1000, by cross-multiplication
RateIs(r) ==
    LET x == r.taux_calcule_pour_mille
    IN  IF IsNa(r.nombre) THEN x = FNaN
        ELSE x.k = "fin" /\ x.n * r.Population[1] = r.nombre[1] * 1000 * x.d

\* C1 (as stated): the rate is null when Population is null, zero or negative and
\* nombre / Population * 1000 otherwise; a row without a population record has a
\* null rate and a row with a positive matched population has a non-null rate.
C1_RateAsStated ==
    Ran5 => \A i \in 1..Len(df) :
        /\ ~PositivePop(df[i]) => df[i].taux_calcule_pour_mille = FNaN
        /\ ~HasPopRecord(df[i]) => df[i].taux_calcule_pour_mille = FNaN
        /\ PositivePop(df[i]) => df[i].taux_calcule_pour_mille.k = "fin"

\* C1 (amended): the rate is null when Population is null, zero or negative, and
\* nombre / Population * 1000 otherwise, which is null when nombre is null; a row
\* without a population record has a null rate and a row with a positive matched
\* population and a non-null nombre has a non-null rate.
C1_SafeRate ==
    Ran5 => \A i \in 1..Len(df) :
        /\ ~PositivePop(df[i]) => df[i].taux_calcule_pour_mille = FNaN
        /\ ~HasPopRecord(df[i]) => df[i].taux_calcule_pour_mille = FNaN
        /\ PositivePop(df[i]) => RateIs(df[i])
        /\ (PositivePop(df[i]) /\ ~IsNa(df[i].nombre))
              => df[i].taux_calcule_pour_mille.k = "fin"

C1_Witness ==
    /\ Ran5
    /\ \E i \in 1..Len(df) : df[i].Population = Num(0)
    /\ \E i \in 1..Len(df) : ~HasPopRecord(df[i])
    /\ \E i \in 1..Len(df) :
          PositivePop(df[i]) /\ df[i].taux_calcule_pour_mille = Fin(6, 1)

\* what the requested filters select, stated on a crime record and the reference file
PassesYear(c, a) ==
    (~a.include_all_years /\ a.annee_choice # None) => c.annee = a.annee_choice

PassesDep(c, a) == TruthyStr(a.dep_choice) => derive_dep(c.CODGEO_2025) = a.dep_choice

HasName(c, names) ==
    \E i \in 1..Len(refFile) :
        refFile[i].COM = c.CODGEO_2025 /\ refFile[i].LIBELLE \in {<<n>> : n \in names}

PassesCommune(c, a) ==
    TruthyList(a.communes_choice) => HasName(c, a.communes_choice[1])

\* C4: the two left joins never drop a crime row and never invent one: every crime
\* record passing the requested filters is in the output, also without a reference
\* or population match, and every output row is a row of some input crime record.
C4_LeftJoinsKeepCrimeRows ==
    Ran5 =>
        /\ \A i \in 1..Len(crime) :
              (PassesYear(crime[i], args) /\ PassesDep(crime[i], args)
                    /\ PassesCommune(crime[i], args))
              => \E j \in 1..Len(df) : CrimePart(df[j]) = crime[i]
        /\ \A j \in 1..Len(df) :
              \E i \in 1..Len(crime) : CrimePart(df[j]) = crime[i]

C4_Witness ==
    /\ Ran5
    /\ \E j \in 1..Len(df) : IsNa(df[j].Commune) /\ IsNa(df[j].Population)
    /\ \E j \in 1..Len(df) : ~IsNa(df[j].Commune) /\ ~IsNa(df[j].Population)

\* C5: with a dep_choice the output is exactly the year/commune-filtered rows whose
\* derived department derive_dep(CODGEO_2025) equals dep_choice.
C5_DepFilterOnDerived ==
    (Ran5 /\ TruthyStr(args.dep_choice)) =>
        LET base == PrepareBody([args EXCEPT !.dep_choice = PyNone],
                                crime, refFile, popFile).final
        IN  df = SelectSeq(base, LAMBDA r : derive_dep(r.CODGEO_2025) = args.dep_choice)

C5_Witness ==
    /\ Ran5
    /\ args.dep_choice = PyStr(<<"9", "7", "4">>)
    /\ Len(crime) > Len(df)
    /\ \E j \in 1..Len(df) : df[j].CODGEO_2025 = PyStr(cReunion)

\* C6: with include_all_years the year argument is ignored: the output is the one
\* obtained with year = null, rows of every year included; without it and with a
\* year given, every output row has that year.
C6_YearIgnoredWhenAllYears ==
    Ran5 =>
        /\ args.include_all_years =>
              df = PrepareBody([args EXCEPT !.annee_choice = None],
                               crime, refFile, popFile).final
        /\ args.include_all_years =>
              \A i \in 1..Len(crime) :
                 (PassesDep(crime[i], args) /\ PassesCommune(crime[i], args))
                 => \E j \in 1..Len(df) : df[j].annee = crime[i].annee
        /\ (~args.include_all_years /\ args.annee_choice # None) =>
              \A j \in 1..Len(df) : df[j].annee = args.annee_choice

C6_Witness ==
    /\ Ran5
    /\ args.include_all_years
    /\ args.annee_choice = Num(2023)
    /\ \E j \in 1..Len(df) : df[j].annee = Num(2024)
    /\ \E j \in 1..Len(df) : df[j].annee = NaN

Ran == pc \in {"app5", "app4"}

Unfiltered(a) ==
    IF pc = "app5"
    THEN PrepareBody([a EXCEPT !.communes_choice = None], crime, refFile, popFile).final
    ELSE PrepareBody4([a EXCEPT !.communes_choice = None], crime, refFile, popFile).final

\* C7: the commune filter is an exact match on the joined name: with a non-empty
\* set the output is exactly the rows whose joined name is in the set, a null or
\* empty set filters nothing, and a set matching no name gives the empty table.
C7_CommuneFilterExactName ==
    Ran =>
        /\ TruthyList(args.communes_choice) =>
              df = SelectSeq(Unfiltered(args), LAMBDA r :
                      r.Commune \in {<<n>> : n \in args.communes_choice[1]})
        /\ ~TruthyList(args.communes_choice) => df = Unfiltered(args)
        /\ (TruthyList(args.communes_choice)
              /\ \A i \in 1..Len(stage.joined) :
                    stage.joined[i].Commune \notin {<<n>> : n \in args.communes_choice[1]})
           => df = <<>>

C7_Witness ==
    /\ Ran
    /\ args.communes_choice = <<{"Lyon", "Ajaccio"}>>
    /\ \E i \in 1..Len(stage.joined) : stage.joined[i].Commune = <<"LYON">>
    /\ \E i \in 1..Len(stage.joined) : stage.joined[i].Commune = NaN
    /\ df = <<>>

RECURSIVE SumNombre(_)
SumNombre(t) ==
    IF t = <<>> THEN 0
    ELSE (IF IsNa(Head(t).nombre) THEN 0 ELSE Head(t).nombre[1]) + SumNombre(Tail(t))

Indicators == {CrimeFixture[i].indicateur : i \in 1..Len(CrimeFixture)}

\* C9: for a year Y, prepare_data(Y, None, None, False) summed by indicator equals
\* the per-indicator sum of nombre over the raw crime records of year Y.
C9_IndicatorTotalsPreserved ==
    (Ran5 /\ args.annee_choice # None /\ args.communes_choice = None
          /\ args.dep_choice = PyNone /\ ~args.include_all_years) =>
        \A ind \in Indicators :
            SumNombre(SelectSeq(df, LAMBDA r : r.indicateur = ind))
            = SumNombre(SelectSeq(crime, LAMBDA r :
                            r.indicateur = ind /\ r.annee = args.annee_choice))

PassesAll(r, a) ==
    /\ PassesYear(r, a)
    /\ TruthyList(a.communes_choice) => r.Commune \in {<<n>> : n \in a.communes_choice[1]}
    /\ TruthyStr(a.dep_choice) => r.DEP = a.dep_choice

\* C10: prepare_data keeps the step order: name join and department derivation,
\* then the filters, then the population join on rows that pass every requested
\* filter, then the rate.
C10_StepOrder ==
    Ran =>
        /\ \A i \in 1..Len(stage.joined) :
              {"Commune", "DEP"} \subseteq DOMAIN stage.joined[i]
        /\ \A i \in 1..Len(stage.left) :
              /\ {"Commune", "DEP"} \subseteq DOMAIN stage.left[i]
              /\ "Population" \notin DOMAIN stage.left[i]
              /\ PassesAll(stage.left[i], args)
        /\ \A i \in 1..Len(stage.merged) :
              /\ "Population" \in DOMAIN stage.merged[i]
              /\ "taux_calcule_pour_mille" \notin DOMAIN stage.merged[i]
        /\ \A j \in 1..Len(df) : "taux_calcule_pour_mille" \in DOMAIN df[j]

----------------------------------------------------------------------------
(* A session of app-5.py: memoized calls of prepare_data *)

CacheKeyNoFlag(a) == [a EXCEPT !.include_all_years = FALSE]

\* st.cache_data keys an entry by the values of all the arguments
CacheKey(a) == a

SessionCrime == {CrimeFixture, Pick(CrimeFixture, {1, 3})}
SessionRef == {RefFull, RefDup}

SessionArgs ==
    [annee_choice : {None, Num(2023)}, communes_choice : {None},
     dep_choice : {PyNone, PyStr(<<"7", "5">>)}, include_all_years : BOOLEAN]

InitSession ==
    /\ code = PyNone /\ dep = PyNone
    /\ crime \in SessionCrime
    /\ refFile \in SessionRef
    /\ popFile = PopFull
    /\ args = NoArgs /\ df = <<>> /\ stage = NoStage
    /\ cache = <<>> /\ first = <<>> /\ ncalls = 0
    /\ IdlePure /\ IdleLoad /\ IdleFetch /\ IdlePage
    /\ pc = "start"

\* a call of the decorated prepare_data: the cached table on a hit, else the body
\* runs and its result is stored
CallPrepareData(a) ==
    /\ ncalls < MaxCalls
    /\ LET key == CacheKey(a)
           hit == key \in DOMAIN cache
           run == PrepareBody(a, crime, refFile, popFile)
           out == IF hit THEN cache[key] ELSE run.final
       IN  /\ df' = out
           /\ stage' = IF hit THEN stage ELSE run
           /\ cache' = IF hit THEN cache ELSE cache @@ (key :> out)
           /\ first' = IF a \in DOMAIN first THEN first ELSE first @@ (a :> out)
           /\ pc' = IF hit THEN "hit"
                    ELSE IF a \in DOMAIN first THEN "recomputed" ELSE "miss"
    /\ args' = a
    /\ ncalls' = ncalls + 1
    /\ UNCHANGED <<code, dep, crime, refFile, popFile>>
    /\ UNCHANGED <<pureVars, loadVars, fetchVars, pageVars>>

\* the memo is emptied (cache clear or process restart); the source tables stay
ClearCache ==
    /\ DOMAIN cache # {}
    /\ cache' = <<>>
    /\ pc' = "cleared"
    /\ UNCHANGED <<code, dep, crime, refFile, popFile, args, df, stage, first, ncalls>>
    /\ UNCHANGED <<pureVars, loadVars, fetchVars, pageVars>>

NextSession ==
    \/ \E a \in SessionArgs : CallPrepareData(a)
    \/ ClearCache

SpecSession == InitSession /\ [][NextSession]_vars

Returned == pc \in {"hit", "miss", "recomputed"}

----------------------------------------------------------------------------
(* The department choices of app-4.py *)

\* deps_available: the 2-character prefixes of the codes, and the 3-character
\* prefixes of the codes starting with 97, 98 or 20
deps_available(crimeT) ==
    {Slice(crimeT[i].CODGEO_2025.val, 2) : i \in 1..Len(crimeT)}
    \cup {Slice(crimeT[i].CODGEO_2025.val, 3) :
            i \in {j \in 1..Len(crimeT) :
                     \/ StartsWith(crimeT[j].CODGEO_2025.val, <<"9", "7">>)
                     \/ StartsWith(crimeT[j].CODGEO_2025.val, <<"9", "8">>)
                     \/ StartsWith(crimeT[j].CODGEO_2025.val, <<"2", "0">>)}}

Ran4 == pc = "app4"

\* C25: in app-4.py, for every department offered by the sidebar, the returned
\* rows are exactly the rows whose DEP column equals dep_choice: no returned row
\* has another DEP and no row with that DEP is left out.
C25_DepFilterMatchesDepColumn ==
    (Ran4 /\ TruthyStr(args.dep_choice) /\ args.dep_choice.val \in deps_available(crime)) =>
        LET before == CommuneFilter(YearFilter4(stage.joined, args), args)
        IN  /\ \A j \in 1..Len(df) : df[j].DEP = args.dep_choice
            /\ \A i \in 1..Len(before) :
                  InlineDep(before[i].CODGEO_2025) = args.dep_choice
                  => \E j \in 1..Len(df) : CrimePart(df[j]) = CrimePart(before[i])

----------------------------------------------------------------------------
(* normalize_columns, update_crime_data.py *)

\* str.lower on the column names that occur
Lower(name) ==
    CASE name \in {"CODGEO", "Codgeo"} -> "codgeo"
      [] name = "CODGEO_2025" -> "codgeo_2025"
      [] name = "ANNEE" -> "annee"
      [] name = "INDICATEUR" -> "indicateur"
      [] name = "NB" -> "nb"
      [] name = "Nombre" -> "nombre"
      [] OTHER -> name

REQUIRED_COLS_VARIANTS ==
    [CODGEO |-> <<"CODGEO", "codgeo">>,
     ANNEE |-> <<"ANNEE", "annee">>,
     INDICATEUR |-> <<"INDICATEUR", "indicateur">>,
     NB |-> <<"NB", "nb", "nombre">>]

\* a table is the sequence of its columns; data names the values a column holds
Column(name) == [name |-> name, data |-> name]

ColumnNames(t) == [i \in 1..Len(t) |-> t[i].name]

NameSet(t) == {t[i].name : i \in 1..Len(t)}

\* cols_lower = {c.lower(): c for c in df.columns}: the last column wins
ColsLower(t, key) ==
    LET idx == {i \in 1..Len(t) : Lower(t[i].name) = key}
    IN  IF idx = {} THEN None
        ELSE <<t[CHOOSE i \in idx : \A j \in idx : j <= i].name>>

RECURSIVE find_col(_, _)
find_col(candidates, t) ==
    IF candidates = <<>> THEN None
    ELSE LET cand == Head(candidates)
         IN  IF cand \in NameSet(t) THEN <<cand>>
             ELSE IF ColsLower(t, Lower(cand)) # None THEN ColsLower(t, Lower(cand))
             ELSE find_col(Tail(candidates), t)

\* the logical fields in the order of the dict of lines 47-52, with their labels
FieldLabels ==
    << [field |-> "CODGEO", label |-> "CODGEO/CODGEO_2025", canonical |-> "CODGEO_2025"],
       [field |-> "ANNEE", label |-> "ANNEE", canonical |-> "annee"],
       [field |-> "INDICATEUR", label |-> "INDICATEUR", canonical |-> "indicateur"],
       [field |-> "NB", label |-> "NB/nombre", canonical |-> "nombre"] >>

FoundCol(f, t) == find_col(REQUIRED_COLS_VARIANTS[f.field], t)

MissingFirstOnly(t) ==
    LET all == SelectSeq(FieldLabels, LAMBDA f : FoundCol(f, t) = None)
    IN  IF all = <<>> THEN <<>> ELSE <<Head(all).label>>

\* missing = [name for name, col in {...}.items() if col is None]
MissingFields(t) ==
    LET all == SelectSeq(FieldLabels, LAMBDA f : FoundCol(f, t) = None)
    IN  [i \in 1..Len(all) |-> all[i].label]

\* df.rename(columns={col_cod: "CODGEO_2025", ...})
RenameColumns(t) ==
    [i \in 1..Len(t) |->
        LET hits == {k \in 1..Len(FieldLabels) : FoundCol(FieldLabels[k], t) = <<t[i].name>>}
        IN  IF hits = {} THEN t[i]
            ELSE [t[i] EXCEPT !.name = FieldLabels[CHOOSE k \in hits : TRUE].canonical]]

\* df[["CODGEO_2025", "annee", "indicateur", "nombre"]]
RECURSIVE SelectColumns(_, _)
SelectColumns(t, names) ==
    IF names = <<>> THEN <<>>
    ELSE SelectSeq(t, LAMBDA c : c.name = Head(names)) \o SelectColumns(t, Tail(names))

CanonicalNames == <<"CODGEO_2025", "annee", "indicateur", "nombre">>

normalize_columns(t) ==
    IF MissingFields(t) # <<>>
    THEN [raised |-> TRUE,
          error |-> [type |-> "ValueError", missing |-> MissingFields(t),
                     present |-> ColumnNames(t)],
          table |-> <<>>]
    ELSE [raised |-> FALSE,
          error |-> [type |-> "", missing |-> <<>>, present |-> <<>>],
          table |-> SelectColumns(RenameColumns(t), CanonicalNames)]

ColumnPool ==
    << "CODGEO_2025", "CODGEO", "Codgeo", "annee", "ANNEE", "indicateur",
       "INDICATEUR", "nombre", "Nombre", "NB", "taux_pour_mille" >>

SourceTables ==
    {[i \in 1..Len(Pick(ColumnPool, S)) |-> Column(Pick(ColumnPool, S)[i])] :
        S \in SUBSET (1..Len(ColumnPool))}

InitNorm ==
    /\ code = PyNone /\ dep = PyNone
    /\ crime = <<>> /\ refFile = <<>> /\ popFile = <<>>
    /\ args = NoArgs /\ df = <<>> /\ stage = NoStage
    /\ cache = <<>> /\ first = <<>> /\ ncalls = 0
    /\ input \in SourceTables /\ result = <<>>
    /\ IdleLoad /\ IdleFetch /\ IdlePage
    /\ pc = "start"

prepVars == <<code, dep, crime, refFile, popFile, args, df, stage, cache, first, ncalls>>

NormalizeColumns ==
    /\ pc = "start"
    /\ result' = normalize_columns(input)
    /\ pc' = "normalized"
    /\ UNCHANGED <<input, prepVars, loadVars, fetchVars, pageVars>>

NextNorm == NormalizeColumns

SpecNorm == InitNorm /\ [][NextNorm]_vars

\* a logical field is recognized when a column bears one of its names in any case
Recognized(f, t) ==
    \E i \in 1..Len(t) :
        Lower(t[i].name) \in
            {Lower(REQUIRED_COLS_VARIANTS[f.field][k]) :
                k \in 1..Len(REQUIRED_COLS_VARIANTS[f.field])}

UnrecognizedLabels(t) ==
    {FieldLabels[k].label : k \in {j \in 1..Len(FieldLabels) : ~Recognized(FieldLabels[j], t)}}

IsCanonical(t) == ColumnNames(t) = CanonicalNames

\* C19: a commune-code column named CODGEO, codgeo in any case, or CODGEO_2025 is
\* accepted, and a table that already has the canonical columns is returned
\* unchanged.
C19_CanonicalAccepted ==
    pc = "normalized" =>
        /\ (\E i \in 1..Len(input) :
                Lower(input[i].name) \in {"codgeo", "codgeo_2025"})
              => "CODGEO/CODGEO_2025" \notin
                    {result.error.missing[i] : i \in 1..Len(result.error.missing)}
        /\ IsCanonical(input) => (~result.raised /\ result.table = input)

----------------------------------------------------------------------------
(* Numeric coercion in the crime loaders: app.py, app-4.py, app-5.py,
   prepare_crime_data.py *)

MaxCellLen == 3

DigitVal ==
    ("0" :> 0) @@ ("1" :> 1) @@ ("2" :> 2) @@ ("3" :> 3) @@ ("4" :> 4) @@
    ("5" :> 5) @@ ("6" :> 6) @@ ("7" :> 7) @@ ("8" :> 8) @@ ("9" :> 9)

RECURSIVE DigitsValue(_)
DigitsValue(s) ==
    IF s = <<>> THEN 0
    ELSE DigitsValue(SubSeq(s, 1, Len(s) - 1)) * 10 + DigitVal[s[Len(s)]]

RECURSIVE Pow10(_)
Pow10(n) == IF n = 0 THEN 1 ELSE 10 * Pow10(n - 1)

\* the text is an unsigned decimal number: digits with at most one period
IsDecimalText(s) ==
    /\ \A i \in 1..Len(s) : s[i] \in DOMAIN DigitVal \cup {"."}
    /\ Cardinality({i \in 1..Len(s) : s[i] = "."}) <= 1
    /\ \E i \in 1..Len(s) : s[i] \in DOMAIN DigitVal

DecimalValue(s) ==
    LET dots == {i \in 1..Len(s) : s[i] = "."}
    IN  IF dots = {} THEN Fin(DigitsValue(s), 1)
        ELSE LET p == CHOOSE i \in dots : TRUE
                 whole == SubSeq(s, 1, p - 1)
                 frac == SubSeq(s, p + 1, Len(s))
             IN  Fin(DigitsValue(whole) * Pow10(Len(frac)) + DigitsValue(frac),
                     Pow10(Len(frac)))

\* pd.to_numeric(cell, errors="coerce"); <<>> is a missing cell
to_numeric(cell) ==
    IF cell # <<>> /\ IsDecimalText(cell) THEN DecimalValue(cell) ELSE FNaN

\* .str.replace(",", ".", regex=False)
str_replace(cell) == [i \in 1..Len(cell) |-> IF cell[i] = "," THEN "." ELSE cell[i]]

\* .astype(float) on one cell of a string column: float(text), NaN stays NaN
astype_float(cell) ==
    IF cell = <<>> THEN [raised |-> FALSE, val |-> FNaN]
    ELSE IF IsDecimalText(cell) THEN [raised |-> FALSE, val |-> DecimalValue(cell)]
    ELSE [raised |-> TRUE, val |-> FNaN]

\* lo <= x <= hi on a float column; a comparison with NaN is False
Between(x, lo, hi) == x.k = "fin" /\ lo * x.d <= x.n /\ x.n <= hi * x.d

Loaded(rows) == [raised |-> FALSE, error |-> "", table |-> rows]

Raised(e) == [raised |-> TRUE, error |-> e, table |-> <<>>]

\* load_crime_data of app.py and of app-4.py
load_crime_data_app(raw) ==
    IF \E i \in 1..Len(raw) : astype_float(str_replace(raw[i].taux_pour_mille)).raised
    THEN Raised("ValueError")
    ELSE Loaded([i \in 1..Len(raw) |->
            [line |-> raw[i].line,
             annee |-> to_numeric(raw[i].annee),
             nombre |-> to_numeric(raw[i].nombre),
             taux_pour_mille |-> astype_float(str_replace(raw[i].taux_pour_mille)).val]])

\* the script prepare_crime_data.py, on a file of one chunk
prepare_crime_data(raw) ==
    LET kept == SelectSeq(raw, LAMBDA r : Between(to_numeric(r.annee), 2016, 2024))
    IN  IF \E i \in 1..Len(kept) :
                astype_float(str_replace(kept[i].taux_pour_mille)).raised
        THEN Raised("ValueError")
        ELSE Loaded([i \in 1..Len(kept) |->
                [line |-> kept[i].line,
                 annee |-> to_numeric(kept[i].annee),
                 nombre |-> to_numeric(kept[i].nombre),
                 taux_pour_mille |->
                     astype_float(str_replace(kept[i].taux_pour_mille)).val]])

\* the conversions of load_crime_data of app-5.py, on the file as read
load_crime_data5(raw) ==
    Loaded([i \in 1..Len(raw) |->
        [line |-> raw[i].line,
         annee |-> to_numeric(raw[i].annee),
         nombre |-> to_numeric(raw[i].nombre),
         taux_pour_mille |-> to_numeric(raw[i].taux_pour_mille)]])

CellAlphabet == {"1", "5", ",", ".", "x"}

Cells == SeqsUpTo(CellAlphabet, MaxCellLen)

RawRow(l, y, n, t) == [line |-> l, annee |-> y, nombre |-> n, taux_pour_mille |-> t]

GoodYear == <<"2", "0", "2", "0">>
GoodCount == <<"1", "2">>
GoodRate == <<"1", ".", "5">>

\* files of two lines: the first has one field replaced by an arbitrary cell
RawFiles ==
    {<<RawRow(1, c, GoodCount, GoodRate), RawRow(2, GoodYear, GoodCount, GoodRate)>> :
        c \in Cells}
    \cup {<<RawRow(1, GoodYear, c, GoodRate), RawRow(2, GoodYear, GoodCount, GoodRate)>> :
        c \in Cells}
    \cup {<<RawRow(1, GoodYear, GoodCount, c), RawRow(2, GoodYear, GoodCount, GoodRate)>> :
        c \in Cells}

InitParse ==
    /\ code = PyNone /\ dep = PyNone
    /\ crime = <<>> /\ refFile = <<>> /\ popFile = <<>>
    /\ args = NoArgs /\ df = <<>> /\ stage = NoStage
    /\ cache = <<>> /\ first = <<>> /\ ncalls = 0
    /\ input \in RawFiles /\ result = <<>>
    /\ IdleLoad /\ IdleFetch /\ IdlePage
    /\ pc = "start"

LoadCrimeDataApp ==
    /\ pc = "start"
    /\ result' = load_crime_data_app(input)
    /\ pc' = "loaded_app"
    /\ UNCHANGED <<input, prepVars, loadVars, fetchVars, pageVars>>

PrepareCrimeData ==
    /\ pc = "start"
    /\ result' = prepare_crime_data(input)
    /\ pc' = "prepared"
    /\ UNCHANGED <<input, prepVars, loadVars, fetchVars, pageVars>>

LoadCrimeData5 ==
    /\ pc = "start"
    /\ result' = load_crime_data5(input)
    /\ pc' = "loaded5"
    /\ UNCHANGED <<input, prepVars, loadVars, fetchVars, pageVars>>

NextParse == LoadCrimeDataApp \/ PrepareCrimeData \/ LoadCrimeData5

SpecParse == InitParse /\ [][NextParse]_vars

\* the cell is present and is not a number, the decimal comma being allowed
\* for taux_pour_mille
FailsCoercion(field, cell) ==
    /\ cell # <<>>
    /\ ~IsDecimalText(IF field = "taux_pour_mille" THEN str_replace(cell) ELSE cell)

NumericFields == {"annee", "nombre", "taux_pour_mille"}

\* C14: in load_crime_data of app.py and app-4.py and in prepare_crime_data.py, a
\* value of annee, nombre or taux_pour_mille that fails numeric coercion becomes
\* null with its row retained, and the load does not fail.
C14_ParseFailureAbsorbed ==
    pc \in {"loaded_app", "prepared"} =>
        \A i \in 1..Len(input) : \A f \in NumericFields :
            FailsCoercion(f, input[i][f]) =>
                /\ ~result.raised
                /\ \E j \in 1..Len(result.table) :
                      /\ result.table[j].line = input[i].line
                      /\ result.table[j][f] = FNaN

\* C15: load_crime_data of app-5.py reads a taux_pour_mille written with a decimal
\* comma as the number it denotes, not as null.
C15_CommaDecimalLoaded ==
    pc = "loaded5" =>
        \A i \in 1..Len(input) :
            LET cell == input[i].taux_pour_mille
            IN  (cell # <<>> /\ IsDecimalText(str_replace(cell))) =>
                    result.table[i].taux_pour_mille = DecimalValue(str_replace(cell))

----------------------------------------------------------------------------
(* load_population_local, app.py: the wide population file *)

PopColumn(digits) == <<"p">> \o digits \o <<"_", "p", "o", "p">>

\* .str.extract(r"p(\d+)_pop").astype(int), then 2000 + annee
ExtractYear(name) == 2000 + DigitsValue(SubSeq(name, 2, Len(name) - 4))

\* melt: one record per value column and source row, column by column, with a
\* fresh index; then the conversions of lines 61-66
Melt(wide) ==
    LET nrows == Len(wide.rows)
        n == Len(wide.columns) * nrows
    IN  [i \in 1..n |->
            LET c == ((i - 1) \div nrows) + 1
                r == ((i - 1) % nrows) + 1
            IN  [index |-> i - 1,
                 CODGEO |-> zfill(wide.rows[r].codgeo, 5),
                 libgeo |-> wide.rows[r].libgeo,
                 annee |-> ExtractYear(wide.columns[c]),
                 Population |-> to_numeric(wide.rows[r].pop[wide.columns[c]])]]

MaxYear(long) ==
    CHOOSE y \in {long[i].annee : i \in 1..Len(long)} :
        \A i \in 1..Len(long) : long[i].annee <= y

ExtrapYearsShort(max_year) == (max_year + 1)..(2024 - 1)

\* range(max_year + 1, 2025)
ExtrapYears(max_year) == (max_year + 1)..(2025 - 1)

\* the loop of lines 70-73, year after year
RECURSIVE Extrapolate(_, _, _)
Extrapolate(long, max_year, year) ==
    IF year \notin ExtrapYears(max_year) THEN long
    ELSE LET last == SelectSeq(long, LAMBDA rec : rec.annee = max_year)
             extrap == [i \in 1..Len(last) |-> [last[i] EXCEPT !.annee = year]]
         IN  Extrapolate(long \o extrap, max_year, year + 1)

load_population_local(wide) ==
    LET df_long == Melt(wide)
        max_year == MaxYear(df_long)
    IN  Extrapolate(df_long, max_year, max_year + 1)

PopColumnPool ==
    << PopColumn(<<"2", "1">>), PopColumn(<<"2", "2">>), PopColumn(<<"2", "3">>),
       PopColumn(<<"2", "4">>), PopColumn(<<"2", "5">>) >>

WideRow(c, name, cell) ==
    [codgeo |-> c, libgeo |-> name,
     pop |-> [col \in {PopColumnPool[i] : i \in 1..Len(PopColumnPool)} |->
                 IF col = PopColumn(<<"2", "2">>) THEN cell \o <<"1">> ELSE cell \o <<"5">>]]

\* the third row's code collides with the second once padded; the fourth has
\* populations that are not numbers
WideRowPool ==
    << WideRow(cParis, "Paris", <<"2">>),
       WideRow(<<"1", "0", "0", "1">>, "Abergement", <<"7">>),
       WideRow(<<"0", "1", "0", "0", "1">>, "Abergement bis", <<"9">>),
       WideRow(cLyon, "Lyon", <<"x">>) >>

WideFiles ==
    {[columns |-> Pick(PopColumnPool, C), rows |-> Pick(WideRowPool, R)] :
        C \in (SUBSET (1..Len(PopColumnPool))) \ {{}},
        R \in (SUBSET (1..Len(WideRowPool))) \ {{}}}

InitPop ==
    /\ code = PyNone /\ dep = PyNone
    /\ crime = <<>> /\ refFile = <<>> /\ popFile = <<>>
    /\ args = NoArgs /\ df = <<>> /\ stage = NoStage
    /\ cache = <<>> /\ first = <<>> /\ ncalls = 0
    /\ input \in WideFiles /\ result = <<>>
    /\ IdleLoad /\ IdleFetch /\ IdlePage
    /\ pc = "start"

LoadPopulationLocal ==
    /\ pc = "start"
    /\ result' = load_population_local(input)
    /\ pc' = "pop_loaded"
    /\ UNCHANGED <<input, prepVars, loadVars, fetchVars, pageVars>>

NextPop == LoadPopulationLocal

SpecPop == InitPop /\ [][NextPop]_vars

\* the records after the measured ones
Synthesized == SubSeq(result, Len(Melt(input)) + 1, Len(result))

SourceMaxYear ==
    LET ys == {ExtractYear(input.columns[c]) : c \in 1..Len(input.columns)}
    IN  CHOOSE y \in ys : \A z \in ys : z <= y

\* the measured record of source row r for the last source year
LastMeasured(r) ==
    LET hits == {i \in 1..Len(Melt(input)) :
                    /\ Melt(input)[i].annee = SourceMaxYear
                    /\ (Melt(input)[i].index % Len(input.rows)) + 1 = r}
    IN  Melt(input)[CHOOSE i \in hits : TRUE]

UniqueKeys(t) ==
    \A i, j \in 1..Len(t) :
        (t[i].CODGEO = t[j].CODGEO /\ t[i].annee = t[j].annee) => i = j

SourceCodesDistinct ==
    \A r, q \in 1..Len(input.rows) :
        zfill(input.rows[r].codgeo, 5) = zfill(input.rows[q].codgeo, 5) => r = q

MeasuredUnchanged == SubSeq(result, 1, Len(Melt(input))) = Melt(input)

----------------------------------------------------------------------------
(* The refresh utility, update_crime_data.py *)

MaxRetries == 4

OUTPUT_LATEST == "crime_2016_latest.csv.gz"

\* the path opened by load_crime_data of app-5.py
CRIME_FILE == "crime_2016_2024.csv.gz"

Paths == {OUTPUT_LATEST, CRIME_FILE}

InRangeInclusive(i, n) == i <= n

\* for i in range(max_retries)
InRange(i, n) == i < n

\* str.strip on a commune code
RECURSIVE strip(_)
strip(s) ==
    IF s # <<>> /\ Head(s) = " " THEN strip(Tail(s))
    ELSE IF s # <<>> /\ s[Len(s)] = " " THEN strip(SubSeq(s, 1, Len(s) - 1))
    ELSE s

\* the logical content of a source column, by its name
RoleOf(name) ==
    CASE Lower(name) \in {"codgeo", "codgeo_2025"} -> "codgeo"
      [] Lower(name) = "annee" -> "annee"
      [] Lower(name) = "indicateur" -> "indicateur"
      [] Lower(name) \in {"nb", "nombre"} -> "nombre"
      [] OTHER -> "other"

\* the cell of a downloaded row under the (first) column of that name
CellUnder(t, name, row) ==
    row[RoleOf(SelectSeq(t, LAMBDA c : c.name = name)[1].data)]

Count(t, name) == Len(SelectSeq(t, LAMBDA c : c.name = name))

\* the columns written: the four canonical ones, and the second indicator
\* column, under the name read_csv gives it back, when the source has both
\* INDICATEUR and indicateur (rename then leaves two columns of that name)
RepeatedColumn(t, row) ==
    IF Count(t, "indicateur") > 1
    THEN ("indicateur.1" :> row[RoleOf(SelectSeq(t, LAMBDA c : c.name = "indicateur")[2].data)])
    ELSE <<>>

dropna_year_only(rows) == SelectSeq(rows, LAMBDA r : r.annee # FNaN)

\* df.dropna(subset=["annee", "nombre"])
dropna(rows) == SelectSeq(rows, LAMBDA r : r.annee # FNaN /\ r.nombre # FNaN)

\* lines 80-84: the conversions and dropna(subset=["annee", "nombre"])
CleanRows(t, rows) ==
    LET conv == [i \in 1..Len(rows) |->
                    [CODGEO_2025 |-> strip(CellUnder(t, "CODGEO_2025", rows[i])),
                     annee |-> to_numeric(CellUnder(t, "annee", rows[i])),
                     indicateur |-> CellUnder(t, "indicateur", rows[i]),
                     nombre |-> to_numeric(CellUnder(t, "nombre", rows[i]))]
                    @@ RepeatedColumn(t, rows[i])]
    IN  dropna(conv)

\* attempt 0: the error was not raised by a request
FailedAfterTruncate(e, d) ==
    [status |-> 1, err |-> <<[type |-> e, attempt |-> 0]>>,
     disk |-> [d EXCEPT ![OUTPUT_LATEST] = <<>>]]

Failed(e, d) == [status |-> 1, err |-> <<[type |-> e, attempt |-> 0]>>, disk |-> d]

\* main after the download, lines 67-92, and the exit status of lines 94-99
main_body(content, d) ==
    IF content.kind # "csv" THEN Failed("UnicodeDecodeError", d)
    ELSE LET norm == normalize_columns(content.columns)
         IN  IF norm.raised THEN Failed("ValueError", d)
             ELSE IF Count(norm.table, "annee") > 1 \/ Count(norm.table, "nombre") > 1
                  THEN Failed("TypeError", d)
             ELSE IF Count(norm.table, "CODGEO_2025") > 1
                  THEN Failed("AttributeError", d)
             ELSE IF CleanRows(norm.table, content.rows) = <<>>
                  THEN Failed("ValueError", d)
             ELSE [status |-> 0, err |-> <<>>,
                   disk |-> [d EXCEPT ![OUTPUT_LATEST] =
                                <<CleanRows(norm.table, content.rows)>>]]

DownloadRow(c, y, ind, n) ==
    [codgeo |-> c, annee |-> y, indicateur |-> ind, nombre |-> n, other |-> <<"1">>]

DownloadRowPool ==
    << DownloadRow(cParis, GoodYear, "vols", GoodCount),
       DownloadRow(cLyon \o <<" ">>, <<"2", "0", "2", "1">>, "coups", <<"x">>),
       DownloadRow(cAin, <<"x">>, "vols", <<"3">>) >>

DownloadColumns ==
    { <<"CODGEO", "ANNEE", "INDICATEUR", "NB">>,
      <<"Codgeo", "annee", "indicateur", "nombre", "taux_pour_mille">>,
      <<"CODGEO_2025", "annee", "indicateur", "nombre">>,
      <<"CODGEO", "annee", "ANNEE", "indicateur", "NB">>,
      <<"CODGEO", "ANNEE", "indicateur", "INDICATEUR", "NB">> }

Downloads ==
    {[kind |-> "csv", columns |-> [i \in 1..Len(cols) |-> Column(cols[i])],
      rows |-> Pick(DownloadRowPool, R)] :
        cols \in DownloadColumns, R \in SUBSET (1..Len(DownloadRowPool))}
    \cup {[kind |-> "binary", columns |-> <<>>, rows |-> <<>>]}

RequestErrors == {"ConnectionError", "HTTPError"}

\* a file written by an earlier run
OldFile ==
    << [CODGEO_2025 |-> cReunion, annee |-> Fin(2019, 1), indicateur |-> "vols",
        nombre |-> Fin(7, 1)] >>

Disks == [Paths -> {<<>>, <<OldFile>>}]

InitRefresh ==
    /\ code = PyNone /\ dep = PyNone
    /\ crime = <<>> /\ refFile = <<>> /\ popFile = <<>>
    /\ args = NoArgs /\ df = <<>> /\ stage = NoStage
    /\ cache = <<>> /\ first = <<>> /\ ncalls = 0
    /\ IdlePure
    /\ disk \in Disks
    /\ crimeMemo = <<>> /\ firstLoad = <<>> /\ nreads = 0 /\ cleared = FALSE
    /\ err = <<>>
    /\ IdleFetch /\ IdlePage
    /\ pc = "get"

appVars == <<crimeMemo, firstLoad, nreads, cleared>>

\* one iteration of the loop whose request succeeds: return resp
RequestSucceeds ==
    /\ pc = "get"
    /\ InRange(attempt, MaxRetries)
    /\ \E content \in Downloads : resp' = <<content>>
    /\ requests' = requests + 1
    /\ pc' = "fetched"
    /\ UNCHANGED <<attempt, sleeps, status, err, disk, appVars, prepVars, pureVars, pageVars>>

\* one iteration whose request fails: last_err = e; time.sleep(2 * (i + 1))
RequestFails ==
    /\ pc = "get"
    /\ InRange(attempt, MaxRetries)
    /\ \E e \in RequestErrors : err' = <<[type |-> e, attempt |-> attempt + 1]>>
    /\ requests' = requests + 1
    /\ sleeps' = Append(sleeps, 2 * (attempt + 1))
    /\ attempt' = attempt + 1
    /\ UNCHANGED <<pc, resp, status, disk, appVars, prepVars, pureVars, pageVars>>

\* raise last_err after the loop; main does not catch it: sys.exit(1)
RaiseLastErr ==
    /\ pc = "get"
    /\ ~InRange(attempt, MaxRetries)
    /\ status' = <<1>>
    /\ pc' = "exited"
    /\ UNCHANGED <<attempt, requests, sleeps, resp, err, disk, appVars, prepVars, pureVars, pageVars>>

\* the rest of main on the response
RunMainBody ==
    /\ pc = "fetched"
    /\ LET out == main_body(resp[1], disk)
       IN  /\ status' = <<out.status>>
           /\ err' = out.err
           /\ disk' = out.disk
    /\ pc' = "exited"
    /\ UNCHANGED <<attempt, requests, sleeps, resp, appVars, prepVars, pureVars, pageVars>>

NextRefresh == RequestSucceeds \/ RequestFails \/ RaiseLastErr \/ RunMainBody

SpecRefresh == InitRefresh /\ [][NextRefresh]_vars

LoopStep == RequestSucceeds \/ RequestFails \/ RaiseLastErr

\* a request returns or fails within its timeout, so the loop always takes its
\* next step
FairRefresh == SpecRefresh /\ WF_vars(LoopStep)

RetryBounded ==
    /\ requests <= MaxRetries
    /\ requests = attempt + (IF resp = <<>> THEN 0 ELSE 1)
    /\ (pc = "exited" /\ resp = <<>>) =>
          /\ requests = MaxRetries
          /\ err # <<>> /\ err[1].attempt = MaxRetries
          /\ status = <<1>>

\* C17: http_get_with_retry terminates after at most max_retries requests: it
\* returns at the first request that succeeds without a further request, and when
\* every attempt fails it raises the error of the last attempt and the run exits
\* with status 1.
C17_RetryTerminates == [](RetryBounded) /\ <>(pc # "get")

C17_Witness ==
    /\ pc = "exited" /\ resp = <<>>
    /\ requests = MaxRetries
    /\ status = <<1>>

\* C20: after a successful run of the refresh utility, the file that
\* load_crime_data of app-5.py opens holds the refreshed data.
C20_RefreshWritesLoaderFile ==
    (pc = "exited" /\ status = <<0>>) =>
        /\ OUTPUT_LATEST = CRIME_FILE
        /\ disk[CRIME_FILE] = disk[OUTPUT_LATEST]

\* C28: the i-th failed attempt is followed by a wait of 2*i seconds, the waits
\* increase, and there is no wait after the last failed attempt: at most
\* max_retries - 1 waits are made.
C28_BackoffBetweenAttempts ==
    /\ \A k \in 1..Len(sleeps) : sleeps[k] = 2 * k
    /\ \A k \in 1..(Len(sleeps) - 1) : sleeps[k] < sleeps[k + 1]
    /\ Len(sleeps) <= MaxRetries - 1

\* C29: a step that changes the local files is the last step of a successful run
\* and writes crime_2016_latest.csv.gz only; a run that fails, in the download or
\* after it, exits with status 1 and changes no file.
C29_FailedRunWritesNothing ==
    [][ /\ disk' # disk =>
             /\ pc = "fetched" /\ pc' = "exited" /\ status' = <<0>>
             /\ disk'[CRIME_FILE] = disk[CRIME_FILE]
        /\ (pc' = "exited" /\ status' # <<0>>) => (status' = <<1>> /\ disk' = disk)
      ]_vars

C29_Witness ==
    /\ pc = "exited" /\ status = <<1>>
    /\ resp # <<>> /\ resp[1].kind = "csv"
    /\ err # <<>> /\ err[1].type = "ValueError"
    /\ disk[OUTPUT_LATEST] = <<OldFile>>

\* the rows of the download whose annee and nombre are both numbers
CoercibleRows(rows) ==
    SelectSeq(rows, LAMBDA r : to_numeric(r.annee) # FNaN /\ to_numeric(r.nombre) # FNaN)

Written == disk[OUTPUT_LATEST][1]

RunSucceeded == pc = "exited" /\ status = <<0>>

\* C30 as stated: every written row has a year and a count, the rows that fail
\* coercion are removed, the others are written once each, with only the four
\* canonical columns.
C30_FourColumnsOnly ==
    RunSucceeded =>
        /\ Len(Written) = Len(CoercibleRows(resp[1].rows))
        /\ \A i \in 1..Len(Written) :
              /\ Written[i].annee # FNaN /\ Written[i].nombre # FNaN
              /\ DOMAIN Written[i] = {CanonicalNames[k] : k \in 1..4}

\* C30: every written row has a year and a count; the rows that fail coercion are
\* removed and the others are written once each, in order, with their values;
\* the columns are the four canonical ones when the download has one indicator
\* column, and the indicator column is written twice when it has two.
C30_WrittenRowsComplete ==
    RunSucceeded =>
        LET src == CoercibleRows(resp[1].rows)
            two == Cardinality({i \in 1..Len(resp[1].columns) :
                       Lower(resp[1].columns[i].name) = "indicateur"}) > 1
        IN  /\ Len(Written) = Len(src)
            /\ \A i \in 1..Len(Written) :
                  /\ Written[i].annee = to_numeric(src[i].annee)
                  /\ Written[i].nombre = to_numeric(src[i].nombre)
                  /\ Written[i].annee # FNaN /\ Written[i].nombre # FNaN
                  /\ Written[i].indicateur = src[i].indicateur
                  /\ Written[i].CODGEO_2025 = strip(src[i].codgeo)
                  /\ DOMAIN Written[i] =
                        {CanonicalNames[k] : k \in 1..4}
                            \cup (IF two THEN {"indicateur.1"} ELSE {})

C30_Witness ==
    /\ RunSucceeded
    /\ Len(resp[1].rows) = 3
    /\ Len(Written) = 1
    /\ DOMAIN Written[1] = {CanonicalNames[k] : k \in 1..4}

----------------------------------------------------------------------------
(* The app-5.py process and its crime file *)

\* a file is held as read_csv types it: annee and nombre are numbers already

NewFile ==
    << [CODGEO_2025 |-> cParis, annee |-> Fin(2023, 1), indicateur |-> "vols",
        nombre |-> Fin(12, 1), taux_pour_mille |-> Fin(3, 2)],
       [CODGEO_2025 |-> cLyon, annee |-> Fin(2023, 1), indicateur |-> "coups",
        nombre |-> FNaN, taux_pour_mille |-> FNaN] >>

\* lines 30-35 on a file: numeric columns stay as they are, taux_pour_mille is
\* added as NA when the file has none
load_crime_file(file) ==
    [i \in 1..Len(file) |->
        [CODGEO_2025 |-> file[i].CODGEO_2025,
         annee |-> file[i].annee,
         indicateur |-> file[i].indicateur,
         nombre |-> file[i].nombre,
         taux_pour_mille |->
            IF "taux_pour_mille" \in DOMAIN file[i] THEN file[i].taux_pour_mille
            ELSE FNaN]]

\* a whole number of the loaded table as prepare_data's body takes it
AsNum(f) == IF f.k = "fin" /\ f.d = 1 THEN Num(f.n) ELSE NaN

AsCrime(table) ==
    [i \in 1..Len(table) |->
        CrimeRow(table[i].CODGEO_2025, AsNum(table[i].annee), table[i].indicateur,
                 AsNum(table[i].nombre))]

MissingSourceDefault(path) == [raised |-> FALSE, error |-> <<>>, table |-> <<>>]

\* pd.read_csv on a path that does not exist: FileNotFoundError naming the path
MissingSource(path) ==
    [raised |-> TRUE,
     error |-> <<[type |-> "FileNotFoundError", tried |-> <<path>>]>>,
     table |-> <<>>]

\* the body of load_crime_data of app-5.py
load_crime_data(d) ==
    IF d[CRIME_FILE] = <<>> THEN MissingSource(CRIME_FILE)
    ELSE [raised |-> FALSE, error |-> <<>>, table |-> load_crime_file(d[CRIME_FILE][1])]

StoreNothing(table) == <<>>

\* st.cache_data keeps the value returned
StoreMemo(table) == <<table>>

\* a call of the decorated load_crime_data: what it returns or raises, and the
\* memo and counters after it
CachedLoad ==
    IF crimeMemo # <<>>
    THEN [raised |-> FALSE, error |-> <<>>, table |-> crimeMemo[1], hit |-> TRUE,
          memo |-> crimeMemo, reads |-> nreads, firstOf |-> firstLoad]
    ELSE LET out == load_crime_data(disk)
         IN  IF out.raised
             THEN [raised |-> TRUE, error |-> out.error, table |-> <<>>, hit |-> FALSE,
                   memo |-> crimeMemo, reads |-> nreads, firstOf |-> firstLoad]
             ELSE [raised |-> FALSE, error |-> <<>>, table |-> out.table, hit |-> FALSE,
                   memo |-> StoreMemo(out.table), reads |-> nreads + 1,
                   firstOf |-> IF firstLoad = <<>> THEN <<out.table>> ELSE firstLoad]

LoadArgs ==
    [annee_choice : {None}, communes_choice : {None},
     dep_choice : {PyNone, PyStr(<<"7", "5">>)}, include_all_years : {TRUE}]

RefreshDownloads ==
    {[kind |-> "csv",
      columns |-> [i \in 1..4 |-> Column(<<"CODGEO", "ANNEE", "INDICATEUR", "NB">>[i])],
      rows |-> Pick(DownloadRowPool, {1})],
     [kind |-> "binary", columns |-> <<>>, rows |-> <<>>]}

InitLoad ==
    /\ code = PyNone /\ dep = PyNone
    /\ crime = <<>> /\ refFile = RefFull /\ popFile = PopFull
    /\ args = NoArgs /\ df = <<>> /\ stage = NoStage
    /\ cache = <<>> /\ first = <<>> /\ ncalls = 0
    /\ IdlePure
    /\ disk \in Disks
    /\ crimeMemo = <<>> /\ firstLoad = <<>> /\ nreads = 0 /\ cleared = FALSE
    /\ err = <<>>
    /\ IdleFetch /\ IdlePage
    /\ pc = "start"

\* the call of line 90; an exception ends the script run
CallLoadCrimeData ==
    /\ ncalls < MaxCalls
    /\ LET c == CachedLoad
       IN  /\ result' = c.table
           /\ err' = c.error
           /\ crimeMemo' = c.memo
           /\ nreads' = c.reads
           /\ firstLoad' = c.firstOf
           /\ pc' = IF c.raised THEN "load_failed"
                    ELSE IF c.hit THEN "load_hit" ELSE "load_miss"
    /\ ncalls' = ncalls + 1
    /\ UNCHANGED <<code, dep, crime, refFile, popFile, args, df, stage, cache, first>>
    /\ UNCHANGED <<input, disk, cleared, fetchVars, pageVars>>

\* a call of the decorated prepare_data (lines 123, 405, 451): on a miss its body
\* calls load_crime_data first
CallPrepare5(a) ==
    /\ ncalls < MaxCalls
    /\ LET key == CacheKey(a)
           hit == key \in DOMAIN cache
           c == CachedLoad
           failed == ~hit /\ c.raised
           run == PrepareBody(a, AsCrime(c.table), refFile, popFile)
           out == IF hit THEN cache[key] ELSE IF failed THEN <<>> ELSE run.final
       IN  /\ df' = out
           /\ stage' = IF hit \/ failed THEN stage ELSE run
           /\ cache' = IF hit \/ failed THEN cache ELSE cache @@ (key :> out)
           /\ first' = IF failed \/ a \in DOMAIN first THEN first ELSE first @@ (a :> out)
           /\ err' = IF failed THEN c.error ELSE <<>>
           /\ crimeMemo' = IF hit THEN crimeMemo ELSE c.memo
           /\ nreads' = IF hit THEN nreads ELSE c.reads
           /\ firstLoad' = IF hit THEN firstLoad ELSE c.firstOf
           /\ pc' = IF failed THEN "prepare_failed"
                    ELSE IF hit THEN "prepare_hit" ELSE "prepare_miss"
    /\ args' = a
    /\ ncalls' = ncalls + 1
    /\ UNCHANGED <<code, dep, crime, refFile, popFile>>
    /\ UNCHANGED <<pureVars, disk, cleared, fetchVars, pageVars>>

\* a run of update_crime_data.py beside the app
RunUpdateCrimeData ==
    /\ \E content \in RefreshDownloads : disk' = main_body(content, disk).disk
    /\ disk' # disk
    /\ pc' = "updated"
    /\ UNCHANGED <<prepVars, pureVars, appVars, err, fetchVars, pageVars>>

\* a run of prepare_crime_data.py beside the app: to_csv(output_file) of line 28
RunPrepareCrimeData ==
    /\ \E file \in {OldFile, NewFile} : disk' = [disk EXCEPT ![CRIME_FILE] = <<file>>]
    /\ disk' # disk
    /\ pc' = "file_written"
    /\ UNCHANGED <<prepVars, pureVars, appVars, err, fetchVars, pageVars>>

\* st.cache_data.clear() from the application menu
ClearCaches ==
    /\ crimeMemo # <<>> \/ DOMAIN cache # {}
    /\ crimeMemo' = <<>>
    /\ cache' = <<>>
    /\ cleared' = TRUE
    /\ pc' = "caches_cleared"
    /\ UNCHANGED <<code, dep, crime, refFile, popFile, args, df, stage, first, ncalls>>
    /\ UNCHANGED <<pureVars, disk, firstLoad, nreads, err, fetchVars, pageVars>>

\* the process is stopped and started again
Restart ==
    /\ ncalls > 0
    /\ crimeMemo' = <<>> /\ firstLoad' = <<>> /\ nreads' = 0 /\ cleared' = FALSE
    /\ cache' = <<>> /\ first' = <<>> /\ ncalls' = 0
    /\ args' = NoArgs /\ df' = <<>> /\ stage' = NoStage
    /\ err' = <<>>
    /\ input' = <<>> /\ result' = <<>>
    /\ pc' = "start"
    /\ UNCHANGED <<code, dep, crime, refFile, popFile, disk, fetchVars, pageVars>>

NextLoad ==
    \/ CallLoadCrimeData
    \/ \E a \in LoadArgs : CallPrepare5(a)
    \/ RunUpdateCrimeData
    \/ RunPrepareCrimeData
    \/ ClearCaches
    \/ Restart

SpecLoad == InitLoad /\ [][NextLoad]_vars

LoadReturned == pc \in {"load_hit", "load_miss"}

PrepareReturned == pc \in {"prepare_hit", "prepare_miss"}

\* C11: within one process, across any sequence of load_crime_data and
\* prepare_data calls, the crime file is read at most once, and every call returns
\* the data the first one returned.
C11_LoadedOnce ==
    ~cleared =>
        /\ nreads <= 1
        /\ LoadReturned => result = firstLoad[1]
        /\ PrepareReturned => df = first[args]
        /\ crimeMemo # <<>> => crimeMemo = firstLoad

\* the file has been overwritten since the first load and the call is served
\* from the memo
C11_Witness ==
    /\ pc = "load_hit" /\ ~cleared
    /\ nreads = 1 /\ ncalls = 3
    /\ disk[CRIME_FILE] # <<>>
    /\ load_crime_file(disk[CRIME_FILE][1]) # result

\* C12: once the crime table is cached, an overwrite of the source file by the
\* update step does not change what load_crime_data and prepare_data return until
\* a restart or a cache clear; the first load after that returns the data of the
\* file the update step wrote.
C12_UpdateSeenAfterRestart ==
    /\ (~cleared /\ LoadReturned) => result = firstLoad[1]
    /\ (~cleared /\ PrepareReturned) => df = first[args]
    /\ (pc = "load_miss" /\ disk[OUTPUT_LATEST] # <<>>) =>
          result = load_crime_file(disk[OUTPUT_LATEST][1])

\* C13: when the crime file does not exist, load_crime_data raises an error naming
\* the path it tried; the caller gets no table, nothing is cached and the open is
\* tried once; a load that returns has found the file.
C13_MissingSourceFatal ==
    /\ pc \in {"load_failed", "prepare_failed"} =>
          /\ disk[CRIME_FILE] = <<>>
          /\ err = <<[type |-> "FileNotFoundError", tried |-> <<CRIME_FILE>>]>>
          /\ crimeMemo = <<>>
          /\ pc = "load_failed" => result = <<>>
          /\ pc = "prepare_failed" => (df = <<>> /\ CacheKey(args) \notin DOMAIN cache)
    /\ pc \in {"load_miss", "prepare_miss"} => disk[CRIME_FILE] # <<>>

\* the refreshed file exists but the file the loader opens does not
C13_Witness ==
    /\ pc = "prepare_failed"
    /\ disk[OUTPUT_LATEST] # <<>>
    /\ ncalls = 2
    /\ err # <<>>

----------------------------------------------------------------------------
(* Rankings by rate: tab 3 and create_excel_rankings of app-5.py,
   rankings_by_rate of app.py *)

AllIndics == "Tous les crimes confondus"

\* the order of sort_values on a float column, NaN apart
FloatRank(x) == CASE x.k = "ninf" -> 0 [] x.k = "fin" -> 1 [] x.k = "inf" -> 2 [] OTHER -> 0

FloatLeq(x, y) ==
    IF x.k = "fin" /\ y.k = "fin" THEN x.n * y.d <= y.n * x.d
    ELSE FloatRank(x) <= FloatRank(y)

\* agg(Population=("Population", "first")): the first non-null value of the group
FirstPopulation(rows) ==
    LET known == SelectSeq(rows, LAMBDA r : ~IsNa(r.Population))
    IN  IF known = <<>> THEN NaN ELSE known[1].Population

\* groupby(keys): the groups of the rows whose keys are all non-null
GroupKeys(t, withYear) ==
    {[Commune |-> t[i].Commune, CODGEO_2025 |-> t[i].CODGEO_2025,
      annee |-> IF withYear THEN t[i].annee ELSE NaN] :
        i \in {j \in 1..Len(t) : ~IsNa(t[j].Commune) /\ (withYear => ~IsNa(t[j].annee))}}

GroupRows(t, key, withYear) ==
    SelectSeq(t, LAMBDA r :
        /\ r.Commune = key.Commune /\ r.CODGEO_2025 = key.CODGEO_2025
        /\ withYear => r.annee = key.annee)

RateMasked(total, pop) ==
    IF IsNa(pop) \/ (~IsNa(pop) /\ pop[1] <= 0) THEN FNaN
    ELSE FMul(FDiv(total, pop), 1000)

\* (Total_crimes / Population) * 1000
RateUnmasked(total, pop) == FMul(FDiv(total, pop), 1000)

\* the aggregate with its rate column, before the sort
Aggregate(t, withYear, masked) ==
    {[Commune |-> key.Commune, CODGEO_2025 |-> key.CODGEO_2025, annee |-> key.annee,
      Total_crimes |-> Num(SumNombre(GroupRows(t, key, withYear))),
      Population |-> FirstPopulation(GroupRows(t, key, withYear)),
      Taux_pour_mille |->
          IF masked
          THEN RateMasked(Num(SumNombre(GroupRows(t, key, withYear))),
                          FirstPopulation(GroupRows(t, key, withYear)))
          ELSE RateUnmasked(Num(SumNombre(GroupRows(t, key, withYear))),
                            FirstPopulation(GroupRows(t, key, withYear)))] :
        key \in GroupKeys(t, withYear)}

\* sort_values(rate, ascending=False): the entries that can come first; NaN is
\* placed last, the order among equal rates is not fixed
TopOf(agg) ==
    LET ranked == {g \in agg : g.Taux_pour_mille # FNaN}
    IN  IF ranked = {} THEN agg
        ELSE {g \in ranked : \A h \in ranked : FloatLeq(h.Taux_pour_mille, g.Taux_pour_mille)}

Ranking(agg) == [rows |-> agg, top |-> TopOf(agg)]

IndicFilter(t, indic) ==
    IF indic # AllIndics THEN SelectSeq(t, LAMBDA r : r.indicateur = indic) ELSE t

\* df[df["annee"] == year]: no row equals a null year
YearRows(t, year) == SelectSeq(t, LAMBDA r : ~IsNa(year) /\ r.annee = year)

\* tab 3 of app-5.py: df_year, taux_rank and top_taux
taux_rank(t, year, indic) ==
    Ranking(Aggregate(IndicFilter(YearRows(t, year), indic),
                      FALSE, FALSE))

\* create_excel_rankings of app-5.py: the sheet Classement_taux_1000
create_excel_rankings(t) == Ranking(Aggregate(t, FALSE, TRUE))

\* rankings_by_rate of app.py: top
rankings_by_rate(t, year, indic) ==
    Ranking(Aggregate(IndicFilter(YearRows(t, year), indic),
                      TRUE, FALSE))

----------------------------------------------------------------------------
(* The page of app-5.py: one run of the script after the loaders *)

NullIn(r, f) ==
    CASE f = "annee" -> IsNa(r.annee)
      [] f = "Commune" -> IsNa(r.Commune)
      [] f = "DEP" -> r.DEP.type # "str"
      [] OTHER -> FALSE

\* groupby(keys)["nombre"].sum().reset_index(): rows with a null key are left out
GroupSum(t, keys) ==
    LET rows == SelectSeq(t, LAMBDA r : \A f \in keys : ~NullIn(r, f))
        groups == {[f \in keys |-> rows[i][f]] : i \in 1..Len(rows)}
    IN  {g @@ [nombre |-> SumNombre(SelectSeq(rows, LAMBDA r : \A f \in keys : r[f] = g[f]))] :
            g \in groups}

RowSet(t) == {t[i] : i \in 1..Len(t)}

View(tab, kind, source, data) == [tab |-> tab, kind |-> kind, source |-> source, data |-> data]

CommuneScope(t, commune_choice) ==
    IF commune_choice = "France" THEN t
    ELSE SelectSeq(t, LAMBDA r : r.Commune = <<commune_choice>>)

\* the arguments of the call of lines 123-128
MainArgs(w) ==
    [annee_choice |-> w.annee_choice,
     communes_choice |-> IF w.commune_choice = "France" THEN None
                         ELSE <<{w.commune_choice}>>,
     dep_choice |-> w.dep_choice, include_all_years |-> FALSE]

\* the arguments of the call of line 405
SearchArgs ==
    [annee_choice |-> None, communes_choice |-> None, dep_choice |-> PyNone,
     include_all_years |-> TRUE]

\* the arguments of the call of lines 451-455
CompareArgs(w) ==
    [annee_choice |-> w.annee_choice, communes_choice |-> <<w.compare>>,
     dep_choice |-> PyNone, include_all_years |-> FALSE]

\* the export button of the sidebar
ExportViews(t, w) ==
    IF w.export THEN <<View("export", "file", t, create_excel_rankings(t))>> ELSE <<>>

\* tab 1: the map
Tab1(t, w) ==
    LET data == IF w.indic_choice = AllIndics THEN GroupSum(t, {"annee", "DEP"})
                ELSE {g \in GroupSum(t, {"annee", "DEP", "indicateur"}) :
                         g.indicateur = w.indic_choice}
    IN  IF data # {} THEN <<View("tab1", "chart", t, data)>>
        ELSE <<View("tab1", "warning", t, {})>>

\* tab 2: the pie chart and its detail table
Tab2(t, w) ==
    LET scoped == YearRows(CommuneScope(t, w.commune_choice), w.annee_choice)
        data == IF w.indic_choice = AllIndics THEN GroupSum(scoped, {"indicateur"})
                ELSE RowSet(IndicFilter(scoped, w.indic_choice))
    IN  IF data # {}
        THEN <<View("tab2", "chart", t, data), View("tab2", "table", t, data)>>
        ELSE <<View("tab2", "warning", t, {})>>

\* tab 3: top_nombre and top_taux, each a table and, when not empty, a chart
Tab3(t, w) ==
    LET rank == taux_rank(t, w.annee_choice, w.indic_choice)
    IN  <<View("tab3_nombre", "table", t, rank.rows)>>
        \o (IF rank.rows # {} THEN <<View("tab3_nombre", "chart", t, rank.rows)>> ELSE <<>>)
        \o <<View("tab3_taux", "table", t, rank)>>
        \o (IF rank.rows # {} THEN <<View("tab3_taux", "chart", t, rank)>> ELSE <<>>)

\* tab 4: the evolutions
Tab4(t, w) ==
    LET subset == IndicFilter(CommuneScope(t, w.commune_choice), w.indic_choice)
        data == IF w.indic_choice = AllIndics THEN GroupSum(subset, {"annee", "indicateur"})
                ELSE GroupSum(subset, {"annee"})
    IN  IF data # {} THEN <<View("tab4", "chart", subset, data)>> ELSE <<>>

\* tab 5: the heatmap
Tab5(t, w) ==
    LET subset == IndicFilter(CommuneScope(t, w.commune_choice), w.indic_choice)
        data == GroupSum(subset, {"annee", "indicateur"})
    IN  IF data # {} THEN <<View("tab5", "chart", subset, data)>> ELSE <<>>

\* tab 6: the search, on the table of all years. The terms drawn are whole
\* names: a term matches the reference commune of that name, if there is one
Tab6(all, refT, w) ==
    IF w.search = <<>> THEN <<>>
    ELSE IF \A i \in 1..Len(refT) : refT[i].LIBELLE # w.search
    THEN <<View("tab6", "warning", <<>>, {})>>
    ELSE LET commune_data == SelectSeq(all, LAMBDA r : r.Commune = w.search)
         IN  IF commune_data # <<>>
             THEN <<View("tab6", "table", commune_data,
                         GroupSum(commune_data, {"annee", "indicateur"})),
                    View("tab6", "chart", commune_data,
                         GroupSum(commune_data, {"annee", "indicateur"}))>>
             ELSE <<View("tab6", "info", commune_data, {})>>

\* tab 7: the comparison; px.bar and the radar are built from subset_compare as
\* it is. radarRaises: whether melt on the pivot of an empty table raises
Tab7(compared, w, radarRaises) ==
    IF w.compare = {} THEN <<View("tab7", "warning", <<>>, {})>>
    ELSE <<View("tab7", "chart", compared, RowSet(compared))>>
         \o (IF radarRaises
             THEN <<View("tab7", "exception", compared, {})>>
             ELSE <<View("tab7", "chart", compared, GroupSum(compared, {"indicateur", "Commune"}))>>)

\* the script from line 123 on
page(crimeT, refT, popT, w, radarRaises) ==
    LET t == PrepareBody(MainArgs(w), crimeT, refT, popT).final
        all == PrepareBody(SearchArgs, crimeT, refT, popT).final
        compared == PrepareBody(CompareArgs(w), crimeT, refT, popT).final
    IN  IF t = <<>> THEN <<View("main", "warning", t, {})>>
        ELSE ExportViews(t, w) \o Tab1(t, w) \o Tab2(t, w) \o Tab3(t, w) \o Tab4(t, w)
             \o Tab5(t, w) \o Tab6(all, refT, w) \o Tab7(compared, w, radarRaises)

\* prepare_data of app.py: no argument, no filter
prepare_data_app(crimeT, refT, popT) == PrepareBody4(NoArgs, crimeT, refT, popT).final

\* the options of the sidebar, lines 96-120
CommuneOptions(refT) == {"France"} \cup {refT[i].LIBELLE[1] : i \in 1..Len(refT)}

YearOptions(crimeT) ==
    LET years == {crimeT[i].annee : i \in 1..Len(crimeT)} \ {NaN}
    IN  IF years = {} THEN {None} ELSE years

IndicOptions(crimeT) == {AllIndics} \cup {crimeT[i].indicateur : i \in 1..Len(crimeT)}

DepOptions(crimeT) ==
    {PyNone} \cup ({derive_dep(crimeT[i].CODGEO_2025) : i \in 1..Len(crimeT)} \ {PyNone})

SearchTerms == {<<>>, <<"Paris">>, <<"Zz">>}

CompareChoices == {{}, {"Paris"}, {"LYON", "Ajaccio"}}

\* the values drawn for the widgets: some of the options offered
Widgets(crimeT, refT) ==
    [commune_choice : CommuneOptions(refT) \cap {"France", "Paris"},
     annee_choice : YearOptions(crimeT),
     indic_choice : IndicOptions(crimeT) \cap {AllIndics, "vols"},
     dep_choice : DepOptions(crimeT) \cap {PyNone, PyStr(<<"7", "5">>)},
     export : BOOLEAN,
     search : SearchTerms,
     compare : CompareChoices]

\* the crime tables of the page runs: the largest ones
PageTables == {t \in CrimeTables : Len(t) = MaxCrimeRows}

InitPage ==
    /\ code = PyNone /\ dep = PyNone
    /\ crime \in PageTables
    /\ refFile = RefFull
    /\ popFile = PopFull
    /\ args = NoArgs /\ df = <<>> /\ stage = NoStage
    /\ cache = <<>> /\ first = <<>> /\ ncalls = 0
    /\ IdlePure /\ IdleLoad /\ IdleFetch /\ IdlePage
    /\ pc = "start"

\* one run of the script of app-5.py
RunPage(w, radarRaises) ==
    /\ pc = "start"
    /\ crime # <<>>
    /\ widgets' = <<w>>
    /\ args' = MainArgs(w)
    /\ stage' = PrepareBody(MainArgs(w), crime, refFile, popFile)
    /\ df' = stage'.final
    /\ views' = page(crime, refFile, popFile, w, radarRaises)
    /\ pc' = IF df' = <<>> THEN "stopped" ELSE "page"
    /\ UNCHANGED <<code, dep, crime, refFile, popFile, cache, first, ncalls>>
    /\ UNCHANGED <<pureVars, loadVars, fetchVars>>

\* app.py: prepare_data() and rankings_by_rate(df, year, indic)
CallRankingsByRate(year, indic) ==
    /\ pc = "start"
    /\ crime # <<>>
    /\ widgets' = <<[annee_choice |-> year, indic_choice |-> indic]>>
    /\ args' = NoArgs
    /\ stage' = PrepareBody4(NoArgs, crime, refFile, popFile)
    /\ df' = stage'.final
    /\ views' = <<View("app", "table", df', rankings_by_rate(df', year, indic))>>
    /\ pc' = "ranked"
    /\ UNCHANGED <<code, dep, crime, refFile, popFile, cache, first, ncalls>>
    /\ UNCHANGED <<pureVars, loadVars, fetchVars>>

NextPage ==
    \/ \E w \in Widgets(crime, refFile) :
           \E radarRaises \in BOOLEAN :
               /\ radarRaises =>
                      (w.compare # {}
                       /\ PrepareBody(CompareArgs(w), crime, refFile, popFile).final = <<>>)
               /\ RunPage(w, radarRaises)
    \/ \E year \in YearOptions(crime), indic \in IndicOptions(crime) :
           CallRankingsByRate(year, indic)

SpecPage == InitPage /\ [][NextPage]_vars

----------------------------------------------------------------------------
(* Properties of the page *)

PageRan == pc \in {"page", "stopped"}

Built(v) == v.kind \in {"chart", "table", "file"}

\* the ceilings a caller could be configured with, below the largest result
Ceilings == 1..(MaxCrimeRows - 1)

\* C21: the caller has a ceiling on the size of the result of prepare_data: when
\* the result has more rows than the ceiling, the page builds no chart and no table.
C21_OversizeNotRendered ==
    PageRan =>
        \E ceiling \in Ceilings :
            Len(df) > ceiling => \A i \in 1..Len(views) : ~Built(views[i])

\* C23: when a prepare_data call of the page (main call, search tab, comparison
\* tab) returns an empty table, no chart or table is built from it, nothing
\* raises, and a neutral no-data message is shown instead.
C23_EmptyNeverRendered ==
    PageRan =>
        \A i \in 1..Len(views) :
            (views[i].tab \in {"main", "tab6", "tab7"} /\ views[i].source = <<>>) =>
                views[i].kind \in {"warning", "info"}

\* the table of the selected scope with no year filter applied
AllYearsScope(w) ==
    IndicFilter(CommuneScope(
        PrepareBody([MainArgs(w) EXCEPT !.include_all_years = TRUE],
                    crime, refFile, popFile).final,
        w.commune_choice), w.indic_choice)

\* the years of the rows of a table
YearsOf(t) == {t[i].annee : i \in 1..Len(t)} \ {NaN}

\* C24: the evolutions view and the heatmap view are computed from the rows of
\* every year of the selected scope: the year filter is not applied to them.
C24_EvolutionsOverAllYears ==
    pc = "page" =>
        \A i \in 1..Len(views) :
            views[i].tab \in {"tab4", "tab5"} =>
                YearsOf(AllYearsScope(widgets[1])) \subseteq YearsOf(views[i].source)

NoPopulation(g) == IsNa(g.Population) \/ g.Population[1] <= 0

\* C27: no ranking by rate holds an infinite rate; a commune whose population is
\* null, zero or negative has a null rate and is not at the top of a ranking
\* in which some commune has a rate.
C27_NoInfiniteRate ==
    \A i \in 1..Len(views) :
        views[i].tab \in {"tab3_taux", "export", "app"} =>
            \A g \in views[i].data.rows :
                /\ g.Taux_pour_mille.k \notin {"inf", "ninf"}
                /\ NoPopulation(g) =>
                       /\ g.Taux_pour_mille = FNaN
                       /\ (\E h \in views[i].data.rows : h.Taux_pour_mille # FNaN) =>
                              g \notin views[i].data.top

----------------------------------------------------------------------------
(* The loaders and prepare_data of app2.py *)

Loaders == {"load_crime_data", "load_communes_ref", "load_population_local"}

\* except Exception: st.error(...) and the default of the loader
ErrorViews(failing) ==
    (IF "load_crime_data" \in failing
     THEN <<View("load_crime_data", "error", <<>>, {})>> ELSE <<>>)
    \o (IF "load_crime_data" \notin failing /\ "load_communes_ref" \in failing
        THEN <<View("load_communes_ref", "error", <<>>, {})>> ELSE <<>>)
    \o (IF "load_crime_data" \notin failing /\ "load_population_local" \in failing
        THEN <<View("load_population_local", "error", <<>>, {})>> ELSE <<>>)

\* load_communes_ref: the renamed columns, or an empty table when the read raises
load_communes_ref2(file, failing) ==
    IF "load_communes_ref" \in failing THEN <<>> ELSE load_communes_ref4(file)

\* load_population_local: the long table, or an empty table when the read raises
load_population_local2(file, failing) ==
    IF "load_population_local" \in failing THEN <<>> ELSE load_population_data4(file)

\* prepare_data after the crime table is there: the two left joins
prepare_data2(crimeT, refT, popT, failing) ==
    MergePop(MergeRef(crimeT, load_communes_ref2(refT, failing)),
             load_population_local2(popT, failing))

InitApp2 ==
    /\ code = PyNone /\ dep = PyNone
    /\ crime \in CrimeTables
    /\ refFile = RefFull
    /\ popFile = PopFull
    /\ args = NoArgs /\ df = <<>> /\ stage = NoStage
    /\ cache = <<>> /\ first = <<>> /\ ncalls = 0
    /\ IdlePure /\ IdleLoad /\ IdleFetch /\ IdlePage
    /\ pc = "start"

\* prepare_data of app2.py; failing: the loaders whose read raises in this run
RunPrepareData2(failing) ==
    /\ pc = "start"
    /\ views' = ErrorViews(failing)
    /\ IF "load_crime_data" \in failing
       THEN df' = <<>> /\ pc' = "stopped2"
       ELSE df' = prepare_data2(crime, refFile, popFile, failing) /\ pc' = "app2"
    /\ UNCHANGED <<code, dep, crime, refFile, popFile, args, stage, cache, first, ncalls>>
    /\ UNCHANGED <<pureVars, loadVars, fetchVars, widgets>>

NextApp2 == \E failing \in SUBSET Loaders : RunPrepareData2(failing)

SpecApp2 == InitApp2 /\ [][NextApp2]_vars

\* C22: in app2.py, when a loader fails, the run of prepare_data is aborted with
\* an error: prepare_data does not go on to the joins with a default table and
\* does not return a table.
C22_LoaderFailureAborts ==
    (\E i \in 1..Len(views) : views[i].kind = "error") => pc # "app2"

====
